---- MODULE Spec2Model ----
(***************************************************************************)
(* Model of modal-clustering/cluster_api.py: the HTTP endpoint             *)
(* cluster_endpoint and the remote function cluster_articles it calls.     *)
(* The BERTopic library (fit_transform, get_topic, get_topic_info) is the  *)
(* environment: its label sequence, ranked term lists and topic table are  *)
(* drawn from bounded sets.                                                *)
(***************************************************************************)
EXTENDS Integers, Sequences, FiniteSets, TLC

VARIABLES caller, data, pc, documents, article_ids, topics, topic_model,
          topic_to_articles, result, response, exception

vars == <<caller, data, pc, documents, article_ids, topics, topic_model,
          topic_to_articles, result, response, exception>>

----------------------------------------------------------------------------
(* Bounds of the model *)

\* most raw articles in a request of Spec
MaxArticles == 5
\* most raw articles in a request of SpecFields
MaxFieldArticles == 3
\* topic labels are -1 (outlier) and 0..MaxLabel
MaxLabel == 1
\* longest ranked term list get_topic returns
MaxWords == 6

(* Program constants *)

\* cluster_api.py:43 and :58, the minimum number of articles / documents
MIN_DOCUMENTS == 3
\* cluster_api.py:118, the smallest group that is emitted
MIN_CLUSTER_SIZE == 2
\* cluster_api.py:123, topic_words[:5]
TOP_KEYWORDS == 5
\* cluster_api.py:106 and :142, the outlier label
OUTLIER == -1

----------------------------------------------------------------------------
(* Python values *)

\* None
PyNone == [py |-> "None", chars |-> <<>>]
\* a str, as the sequence of the Unicode code points of its characters
Str(s) == [py |-> "str", chars |-> s]

\* dict.get(key, default)
Get(d, key, default) == IF key \in DOMAIN d THEN d[key] ELSE default

\* what an f-string replacement field {v} renders: str(None) is "None"
\* (78 111 110 101)
Format(v) == IF v.py = "None" THEN <<78, 111, 110, 101>> ELSE v.chars

\* the characters str.strip() removes: those of str.isspace(), which are the
\* ASCII controls 9-13 and 28-31, the space, NEL (133), the no-break space
\* (160) and the Unicode space and line separators
IsSpace(c) ==
    c \in (9..13) \cup (28..32) \cup {133, 160, 5760} \cup (8192..8202)
           \cup {8232, 8233, 8239, 8287, 12288}

RECURSIVE LStrip(_)
LStrip(s) == IF s # <<>> /\ IsSpace(Head(s)) THEN LStrip(Tail(s)) ELSE s

RECURSIVE RStrip(_)
RStrip(s) ==
    IF s # <<>> /\ IsSpace(s[Len(s)]) THEN RStrip(SubSeq(s, 1, Len(s) - 1)) ELSE s

\* str.strip()
Strip(s) == RStrip(LStrip(s))

\* line 53: f"{article.get('title', '')} {article.get('excerpt', '')}".strip()
DerivedText(article) ==
    Strip(Format(Get(article, "title", Str(<<>>))) \o <<32>>
          \o Format(Get(article, "excerpt", Str(<<>>))))

\* lines 50-56: the indices of the articles that are kept, in input order
RECURSIVE KeptIndices(_, _)
KeptIndices(arts, i) ==
    IF i > Len(arts) THEN <<>>
    ELSE IF DerivedText(arts[i]) # <<>>
         THEN <<i>> \o KeptIndices(arts, i + 1)
         ELSE KeptIndices(arts, i + 1)

\* lines 50-55: documents
PrepareDocuments(arts) ==
    LET kept == KeptIndices(arts, 1)
    IN  [k \in 1..Len(kept) |-> DerivedText(arts[kept[k]])]

\* lines 51-56: article_ids
PrepareIds(arts) ==
    LET kept == KeptIndices(arts, 1)
    IN  [k \in 1..Len(kept) |-> Get(arts[kept[k]], "id", "")]

----------------------------------------------------------------------------
(* Responses *)

NoValue == [pending |-> TRUE]

\* lines 44-47
TooFewArticles ==
    [clusters |-> <<>>, message |-> "Not enough articles to cluster (minimum 3)"]

\* the too-small response in the shape of the success response
TooFewDocumentsCounted ==
    [clusters |-> <<>>, unclusteredIds |-> <<>>,
     message |-> "Not enough valid documents to cluster"]

\* lines 59-62
TooFewDocuments ==
    [clusters |-> <<>>, message |-> "Not enough valid documents to cluster"]

\* the empty request answered like an input that is too small
EmptyRequestAsMessage == [clusters |-> <<>>, message |-> "No articles provided"]

\* line 172
EmptyRequest == [error |-> "No articles provided", clusters |-> <<>>]

\* the error record without the exception's own message
ErrorResponseBare(e) ==
    [error |-> "Clustering failed", clusters |-> <<>>,
     message |-> <<"Clustering failed: ", e>>]

\* lines 178-182
ErrorResponse(e) ==
    [error |-> e, clusters |-> <<>>, message |-> <<"Clustering failed: ", e>>]

----------------------------------------------------------------------------
(* The clustering library, as far as cluster_articles reads it *)

Labels == OUTLIER..MaxLabel
Topics == 0..MaxLabel

\* a list of n (word, score) pairs of topic t, best first
RankedWords(t, n) == [r \in 1..n |-> <<<<"term", t, r>>, n + 1 - r>>]

\* every topic has MaxWords terms and a row in the topic table
FullModel ==
    [words |-> [t \in Topics |-> RankedWords(t, MaxWords)],
     names |-> [t \in Topics |-> <<"name", t>>]]

\* topic 0 has no term left after the stop-word and min_df filters, the other
\* topics have two; every topic has a row in the topic table
SparseModel ==
    [words |-> [t \in Topics |-> IF t = 0 THEN <<>> ELSE RankedWords(t, 2)],
     names |-> [t \in Topics |-> <<"name", t>>]]

\* no terms, and a topic table without rows
BareModel ==
    [words |-> [t \in Topics |-> <<>>],
     names |-> [t \in {} |-> <<>>]]

TopicModels == {FullModel, SparseModel, BareModel}

\* line 122: topic_model.get_topic(topic_id)
get_topic(model, topic_id) == Get(model.words, topic_id, <<>>)

----------------------------------------------------------------------------
(* Assembly, lines 101-151 *)

\* lines 110-114: the entry appended for position idx of the label sequence
\* (its "probability" field is stored and never read; it is left out)
TopicArticle(arts, ids, idx) ==
    [id |-> ids[idx], title |-> Get(arts[idx], "title", Str(<<>>))]

\* the place of topic_id among the keys of the dict, 0 when it is no key
KeyIndex(t2a, topic_id) ==
    IF \E k \in 1..Len(t2a) : t2a[k].topic = topic_id
    THEN CHOOSE k \in 1..Len(t2a) : t2a[k].topic = topic_id
    ELSE 0

\* lines 104-114: topic_to_articles, a dict, as the sequence of its items in
\* insertion order
RECURSIVE GroupByTopic(_, _, _, _, _)
GroupByTopic(tps, arts, ids, idx, t2a) ==
    IF idx > Len(tps) THEN t2a
    ELSE IF tps[idx] = OUTLIER THEN GroupByTopic(tps, arts, ids, idx + 1, t2a)
    ELSE LET k == KeyIndex(t2a, tps[idx])
             entry == TopicArticle(arts, ids, idx)
             next == IF k = 0
                     THEN Append(t2a, [topic |-> tps[idx], articles |-> <<entry>>])
                     ELSE [t2a EXCEPT ![k].articles = Append(@, entry)]
         IN  GroupByTopic(tps, arts, ids, idx + 1, next)

\* no group is skipped
KeepsAnyGroup(topic_articles) == Len(topic_articles) >= 1

\* line 118: a group that is not skipped
KeepsGroup(topic_articles) == ~(Len(topic_articles) < MIN_CLUSTER_SIZE)

\* the whole term list, not its first five terms
AllKeywords(topic_words) == [r \in 1..Len(topic_words) |-> topic_words[r][1]]

\* line 123
Keywords(topic_words) ==
    IF topic_words # <<>>
    THEN [r \in 1..(IF Len(topic_words) < TOP_KEYWORDS THEN Len(topic_words)
                    ELSE TOP_KEYWORDS) |-> topic_words[r][1]]
    ELSE <<>>

\* lines 126-127
TopicName(model, topic_id) ==
    IF topic_id \in DOMAIN model.names THEN model.names[topic_id]
    ELSE <<"Topic ", topic_id>>

\* lines 129-135
Cluster(model, item) ==
    [id |-> <<"cluster-", item.topic>>,
     articleIds |-> [k \in 1..Len(item.articles) |-> item.articles[k].id],
     keywords |-> Keywords(get_topic(model, item.topic)),
     topicName |-> TopicName(model, item.topic),
     size |-> Len(item.articles)]

\* lines 117-135
RECURSIVE BuildClusters(_, _, _)
BuildClusters(model, t2a, k) ==
    IF k > Len(t2a) THEN <<>>
    ELSE IF KeepsGroup(t2a[k].articles)
         THEN <<Cluster(model, t2a[k])>> \o BuildClusters(model, t2a, k + 1)
         ELSE BuildClusters(model, t2a, k + 1)

\* c goes behind every cluster that is as large or larger
RECURSIVE InsertBySize(_, _)
InsertBySize(sorted, c) ==
    IF sorted = <<>> THEN <<c>>
    ELSE IF Head(sorted).size >= c.size
         THEN <<Head(sorted)>> \o InsertBySize(Tail(sorted), c)
         ELSE <<c>> \o sorted

\* c goes ahead of the clusters of its own size
RECURSIVE InsertAheadOfTies(_, _)
InsertAheadOfTies(sorted, c) ==
    IF sorted = <<>> THEN <<c>>
    ELSE IF Head(sorted).size > c.size
         THEN <<Head(sorted)>> \o InsertAheadOfTies(Tail(sorted), c)
         ELSE <<c>> \o sorted

\* an ascending sort, reversed: clusters of equal size change places
RECURSIVE SortBySizeTiesReversed(_)
SortBySizeTiesReversed(cs) ==
    IF cs = <<>> THEN <<>>
    ELSE InsertAheadOfTies(SortBySizeTiesReversed(SubSeq(cs, 1, Len(cs) - 1)),
                           cs[Len(cs)])

\* line 138: clusters.sort(key=size, reverse=True), a stable sort
RECURSIVE SortBySize(_)
SortBySize(cs) ==
    IF cs = <<>> THEN <<>>
    ELSE InsertBySize(SortBySize(SubSeq(cs, 1, Len(cs) - 1)), cs[Len(cs)])

\* lines 141-143
RECURSIVE UnclusteredIds(_, _, _)
UnclusteredIds(tps, ids, idx) ==
    IF idx > Len(tps) THEN <<>>
    ELSE IF tps[idx] = OUTLIER
         THEN <<ids[idx]>> \o UnclusteredIds(tps, ids, idx + 1)
         ELSE UnclusteredIds(tps, ids, idx + 1)

\* the outliers are not subtracted
ClusteredArticlesTotal(docs, unclustered_ids) == Len(docs)

\* line 149
ClusteredArticles(docs, unclustered_ids) == Len(docs) - Len(unclustered_ids)

\* lines 145-151
Success(docs, clusters, unclustered_ids) ==
    [clusters |-> clusters,
     unclusteredIds |-> unclustered_ids,
     totalArticles |-> Len(docs),
     clusteredArticles |-> ClusteredArticles(docs, unclustered_ids),
     message |-> <<"Successfully created ", Len(clusters), " clusters">>]

----------------------------------------------------------------------------
(* Requests *)

\* a key the dict does not have
Absent == [py |-> "absent", chars |-> <<>>]

ArticleIdNames == <<"a1", "a2", "a3", "a4", "a5", "a6", "a7", "a8">>

\* title " a", excerpt "b "
Plain == [title |-> Str(<<32, 97>>), excerpt |-> Str(<<98, 32>>)]
NoFields == [title |-> Absent, excerpt |-> Absent]
NullFields == [title |-> PyNone, excerpt |-> PyNone]
\* title " \xa0\r" (space, no-break space, carriage return), excerpt ""
BlankFields == [title |-> Str(<<32, 160, 13>>), excerpt |-> Str(<<>>)]
\* no title, excerpt "b "
ExcerptOnly == [title |-> Absent, excerpt |-> Str(<<98, 32>>)]

MainKinds == {Plain, NoFields}
FieldKinds == {Plain, NoFields, NullFields, BlankFields, ExcerptOnly}

\* the i-th article of a request: {id, title?, excerpt?}
Article(i, kind) ==
    [key \in {"id"} \cup {f \in {"title", "excerpt"} : kind[f] # Absent} |->
        IF key = "id" THEN ArticleIdNames[i] ELSE kind[key]]

Requests(kinds, n) ==
    {[articles |-> [i \in 1..m |-> Article(i, ks[i])]] :
        ks \in UNION {[1..m -> kinds] : m \in {n}}, m \in {n}}

\* a body without the "articles" key
NoArticlesKey == [other |-> TRUE]

\* str(e) of the exceptions a step may raise
Errors == {"CUDA out of memory", "timeout"}

----------------------------------------------------------------------------
(* State machine *)

\* line 169, and the argument of cluster_articles
articles == Get(data, "articles", <<>>)

InitWith(kinds, max) ==
    /\ data \in {NoArticlesKey} \cup UNION {Requests(kinds, n) : n \in 0..max}
    /\ caller = "none"
    /\ pc = "start"
    /\ documents = <<>>
    /\ article_ids = <<>>
    /\ topics = <<>>
    /\ topic_model = NoValue
    /\ topic_to_articles = <<>>
    /\ result = NoValue
    /\ response = NoValue
    /\ exception = NoValue

Init == InitWith(MainKinds, MaxArticles)

InitFields == InitWith(FieldKinds, MaxFieldArticles)

\* lines 171-172
cluster_endpoint_reject ==
    /\ pc = "start"
    /\ articles = <<>>
    /\ caller' = "endpoint"
    /\ response' = EmptyRequest
    /\ pc' = "done"
    /\ UNCHANGED <<data, documents, article_ids, topics, topic_model,
                   topic_to_articles, result, exception>>

\* lines 174-175: cluster_articles.remote(articles)
cluster_endpoint_call ==
    /\ pc = "start"
    /\ articles # <<>>
    /\ caller' = "endpoint"
    /\ pc' = "called"
    /\ UNCHANGED <<data, documents, article_ids, topics, topic_model,
                   topic_to_articles, result, response, exception>>

\* cluster_articles invoked as a remote function of its own, as main does
\* at line 197
cluster_articles_remote ==
    /\ pc = "start"
    /\ "articles" \in DOMAIN data
    /\ caller' = "direct"
    /\ pc' = "called"
    /\ UNCHANGED <<data, documents, article_ids, topics, topic_model,
                   topic_to_articles, result, response, exception>>

\* lines 43-62
prepare ==
    /\ pc = "called"
    /\ IF articles = <<>> \/ Len(articles) < MIN_DOCUMENTS
       THEN /\ result' = TooFewArticles
            /\ pc' = "returned"
            /\ UNCHANGED <<documents, article_ids>>
       ELSE IF Len(PrepareDocuments(articles)) < MIN_DOCUMENTS
       THEN /\ result' = TooFewDocuments
            /\ pc' = "returned"
            /\ UNCHANGED <<documents, article_ids>>
       ELSE /\ documents' = PrepareDocuments(articles)
            /\ article_ids' = PrepareIds(articles)
            /\ pc' = "prepared"
            /\ UNCHANGED result
    /\ UNCHANGED <<caller, data, topics, topic_model, topic_to_articles,
                   response, exception>>

\* lines 95-98: the labels, the terms and the topic table of the fitted model
fit_transform ==
    /\ pc = "prepared"
    /\ \E tps \in [1..Len(documents) -> Labels], model \in TopicModels :
          /\ topics' = tps
          /\ topic_model' = model
    /\ pc' = "fitted"
    /\ UNCHANGED <<caller, data, documents, article_ids, topic_to_articles,
                   result, response, exception>>

\* lines 101-151
assemble ==
    /\ pc = "fitted"
    /\ LET t2a == GroupByTopic(topics, articles, article_ids, 1, <<>>)
           clusters == SortBySize(BuildClusters(topic_model, t2a, 1))
           unclustered_ids == UnclusteredIds(topics, article_ids, 1)
       IN  /\ topic_to_articles' = t2a
           /\ result' = Success(documents, clusters, unclustered_ids)
    /\ pc' = "returned"
    /\ UNCHANGED <<caller, data, documents, article_ids, topics, topic_model,
                   response, exception>>

\* line 176
cluster_endpoint_return ==
    /\ pc = "returned"
    /\ caller = "endpoint"
    /\ response' = result
    /\ pc' = "done"
    /\ UNCHANGED <<caller, data, documents, article_ids, topics, topic_model,
                   topic_to_articles, result, exception>>

\* any step of cluster_articles raises: its locals are gone, it returns nothing
pipeline_raises ==
    /\ pc \in {"called", "prepared", "fitted"}
    /\ \E e \in Errors : exception' = [message |-> e]
    /\ pc' = "raising"
    /\ documents' = <<>>
    /\ article_ids' = <<>>
    /\ topics' = <<>>
    /\ topic_model' = NoValue
    /\ UNCHANGED <<caller, data, topic_to_articles, result, response>>

\* lines 177-182
cluster_endpoint_except ==
    /\ pc = "raising"
    /\ caller = "endpoint"
    /\ response' = ErrorResponse(exception.message)
    /\ pc' = "done"
    /\ UNCHANGED <<caller, data, documents, article_ids, topics, topic_model,
                   topic_to_articles, result, exception>>

Next ==
    \/ cluster_endpoint_reject
    \/ cluster_endpoint_call
    \/ cluster_articles_remote
    \/ prepare
    \/ fit_transform
    \/ assemble
    \/ cluster_endpoint_return
    \/ pipeline_raises
    \/ cluster_endpoint_except

Spec == Init /\ [][Next]_vars

SpecFields == InitFields /\ [][Next]_vars

----------------------------------------------------------------------------
(* Vocabulary of the properties *)

\* cluster_articles has returned
Returned == pc \in {"returned", "done"} /\ result # NoValue

\* cluster_articles has returned the success response of lines 145-151
Succeeded == Returned /\ "unclusteredIds" \in DOMAIN result

InputIds == {Get(articles[i], "id", "") : i \in 1..Len(articles)}

\* the articles whose derived text, as line 53 computes it, is not empty
ValidIndices == {i \in 1..Len(articles) : DerivedText(articles[i]) # <<>>}

\* how often id is listed in the articleIds of the clusters and in unclusteredIds
Listings(id) ==
    Cardinality({<<k, j>> \in (1..Len(result.clusters)) \X (1..Len(documents)) :
                    /\ j <= Len(result.clusters[k].articleIds)
                    /\ result.clusters[k].articleIds[j] = id})
    + Cardinality({j \in 1..Len(result.unclusteredIds) : result.unclusteredIds[j] = id})

OutputIds ==
    UNION {{result.clusters[k].articleIds[j] :
                j \in 1..Len(result.clusters[k].articleIds)} :
            k \in 1..Len(result.clusters)}
    \cup {result.unclusteredIds[j] : j \in 1..Len(result.unclusteredIds)}

\* the positions of the label sequence that carry label t
Carriers(t) == {idx \in 1..Len(topics) : topics[idx] = t}

\* the first position that carries t
FirstCarrier(t) == CHOOSE idx \in Carriers(t) : \A other \in Carriers(t) : idx <= other

\* the label a cluster was built from
LabelOf(c) == c.id[2]

RECURSIVE SumOfSizes(_)
SumOfSizes(cs) == IF cs = <<>> THEN 0 ELSE Head(cs).size + SumOfSizes(Tail(cs))

IsString(v) == v \in STRING

----------------------------------------------------------------------------
(* C1 *)

\* C1: in every success response each input id is in exactly one of: the
\* articleIds of a cluster, unclusteredIds, the articles dropped for empty
\* derived text; no id is listed twice and no listed id is foreign to the input.
C1_IdsPartitioned ==
    Succeeded =>
        /\ \A i \in 1..Len(articles) :
              Listings(articles[i].id) + (IF i \in ValidIndices THEN 0 ELSE 1) = 1
        /\ OutputIds \subseteq InputIds

----------------------------------------------------------------------------
(* C2 *)

\* C2: in every success response the clusters are ordered by size descending,
\* and clusters of equal size are in the order in which their labels first
\* occur in the label sequence.
C2_SortedBySizeStable ==
    Succeeded =>
        \A i, j \in 1..Len(result.clusters) :
            i < j =>
                LET ci == result.clusters[i]
                    cj == result.clusters[j]
                IN  /\ ci.size >= cj.size
                    /\ ci.size = cj.size =>
                          FirstCarrier(LabelOf(ci)) < FirstCarrier(LabelOf(cj))

\* a response whose larger cluster has the label that occurs later: the sort
\* has moved it to the front
C2_Witness ==
    /\ Succeeded
    /\ Len(result.clusters) >= 2
    /\ result.clusters[1].size > result.clusters[2].size
    /\ FirstCarrier(LabelOf(result.clusters[1]))
         > FirstCarrier(LabelOf(result.clusters[2]))

----------------------------------------------------------------------------
(* C3 *)

\* C3: with fewer than 3 articles of non-empty derived text, whatever the number
\* of raw articles, cluster_articles returns exactly {clusters: [], message:
\* <non-empty string>}, with no other key, and fit_transform is never run; the
\* endpoint hands that response on unchanged.
C3_TooSmall ==
    Cardinality(ValidIndices) < MIN_DOCUMENTS =>
        /\ pc \notin {"prepared", "fitted"}
        /\ topics = <<>> /\ topic_model = NoValue /\ documents = <<>>
        /\ Returned =>
              /\ DOMAIN result = {"clusters", "message"}
              /\ result.clusters = <<>>
              /\ IsString(result.message) /\ result.message # ""
        /\ (pc = "done" /\ Returned) => response = result

\* three raw articles of which one or two have text, answered by lines 59-62
C3_Witness ==
    /\ Returned
    /\ Len(articles) >= MIN_DOCUMENTS
    /\ Cardinality(ValidIndices) \in 1..(MIN_DOCUMENTS - 1)
    /\ result.message = "Not enough valid documents to cluster"

----------------------------------------------------------------------------
(* C4 *)

\* C4: for an empty or missing article list the endpoint answers exactly
\* {error: <non-empty string>, clusters: []}, without a message key and without
\* calling cluster_articles; the answer differs from the too-small responses,
\* which carry a message and no error.
C4_EmptyRequest ==
    /\ (caller = "endpoint" /\ articles = <<>>) =>
          /\ pc = "done"
          /\ result = NoValue /\ documents = <<>> /\ exception = NoValue
          /\ DOMAIN response = {"error", "clusters"}
          /\ IsString(response.error) /\ response.error # ""
          /\ response.clusters = <<>>
    /\ (Returned /\ ~Succeeded) =>
          /\ "message" \in DOMAIN result
          /\ "error" \notin DOMAIN result

\* the endpoint has answered a request whose list is there and empty
C4_Witness ==
    /\ pc = "done"
    /\ caller = "endpoint"
    /\ "articles" \in DOMAIN data
    /\ articles = <<>>
    /\ "error" \in DOMAIN response

----------------------------------------------------------------------------
(* C5 *)

\* C5: when a step of the pipeline call fails, the endpoint does not raise: it
\* answers {error: <the exception's message>, clusters: [], message: <string>},
\* and nothing of a result; a call of the pipeline ends with the full result of
\* cluster_articles or with this record.
C5_FailureCaught ==
    /\ (caller = "endpoint" /\ pc = "raising") => ENABLED cluster_endpoint_except
    /\ (caller = "endpoint" /\ pc = "done" /\ exception # NoValue) =>
          /\ DOMAIN response = {"error", "clusters", "message"}
          /\ response.error = exception.message
          /\ response.clusters = <<>>
          /\ response.message = <<"Clustering failed: ", exception.message>>
          /\ result = NoValue
    /\ (caller = "endpoint" /\ pc = "done" /\ articles # <<>>) =>
          \/ exception = NoValue /\ result # NoValue /\ response = result
          \/ exception # NoValue /\ result = NoValue /\ "error" \in DOMAIN response

\* the endpoint has answered a call that failed on a request large enough to
\* be clustered
C5_Witness ==
    /\ caller = "endpoint"
    /\ pc = "done"
    /\ exception # NoValue
    /\ Cardinality(ValidIndices) >= MIN_DOCUMENTS
    /\ response.error = exception.message

----------------------------------------------------------------------------
(* C6 *)

\* C6: in every success response there is exactly one cluster for each
\* non-outlier label carried by at least 2 documents and no other cluster; every
\* cluster has size = len(articleIds) >= 2 and its own id "cluster-<label>"; the
\* member of a label carried by fewer than 2 documents is in no cluster and not
\* in unclusteredIds.
C6_ClustersOfTwoOrMore ==
    Succeeded =>
        /\ \A t \in Topics :
              Cardinality({k \in 1..Len(result.clusters) :
                              result.clusters[k].id = <<"cluster-", t>>})
                = (IF Cardinality(Carriers(t)) >= MIN_CLUSTER_SIZE THEN 1 ELSE 0)
        /\ \A k \in 1..Len(result.clusters) :
              LET c == result.clusters[k]
              IN  /\ LabelOf(c) \in Topics
                  /\ c.id[1] = "cluster-"
                  /\ c.size = Len(c.articleIds)
                  /\ c.size >= MIN_CLUSTER_SIZE
                  /\ c.size = Cardinality(Carriers(LabelOf(c)))
        /\ \A idx \in 1..Len(topics) :
              (topics[idx] # OUTLIER
                  /\ Cardinality(Carriers(topics[idx])) < MIN_CLUSTER_SIZE)
              => article_ids[idx] \notin OutputIds

\* a response with a cluster and with a label that a single document carries
C6_Witness ==
    /\ Succeeded
    /\ Len(result.clusters) >= 1
    /\ \E t \in Topics : Cardinality(Carriers(t)) = 1

----------------------------------------------------------------------------
(* C7 *)

\* the documents whose non-outlier label is carried by fewer than 2 documents
LonelyDocuments ==
    {idx \in 1..Len(topics) :
        topics[idx] # OUTLIER /\ Cardinality(Carriers(topics[idx])) < MIN_CLUSTER_SIZE}

\* C7: in every success response totalArticles is the number of documents with
\* non-empty derived text, clusteredArticles is totalArticles minus the number
\* of unclusteredIds, and clusteredArticles exceeds the sum of the cluster sizes
\* by the number of documents whose non-outlier label fewer than 2 documents
\* carry.
C7_Counts ==
    Succeeded =>
        /\ result.totalArticles = Cardinality(ValidIndices)
        /\ result.clusteredArticles
             = result.totalArticles - Len(result.unclusteredIds)
        /\ result.clusteredArticles >= SumOfSizes(result.clusters)
        /\ result.clusteredArticles - SumOfSizes(result.clusters)
             = Cardinality(LonelyDocuments)

\* a response with a cluster, an outlier, a lonely document and a dropped article
C7_Witness ==
    /\ Succeeded
    /\ Len(result.clusters) >= 1
    /\ Len(result.unclusteredIds) >= 1
    /\ LonelyDocuments # {}
    /\ Cardinality(ValidIndices) < Len(articles)

----------------------------------------------------------------------------
(* C8 *)

\* v or "": a missing key and None both read as the empty string
OrEmpty(d, key) ==
    IF key \notin DOMAIN d \/ d[key] = PyNone THEN <<>> ELSE d[key].chars

\* trim(concat(title or "", " ", excerpt or ""))
StatedText(article) ==
    Strip(OrEmpty(article, "title") \o <<32>> \o OrEmpty(article, "excerpt"))

\* the articles whose text, derived as stated, is not empty
StatedValid == {i \in 1..Len(articles) : StatedText(articles[i]) # <<>>}

\* C8: the derived text is trim(concat(title or "", " ", excerpt or "")); an
\* article whose title and excerpt are each missing, null, empty or blank is
\* dropped: it is no document, it is not listed in the response, not counted in
\* totalArticles and not counted toward the minimum of 3; every other article
\* is kept.
C8_EmptyTextDropped ==
    /\ pc \in {"prepared", "fitted"} =>
          /\ Cardinality(StatedValid) >= MIN_DOCUMENTS
          /\ {article_ids[k] : k \in 1..Len(article_ids)}
               = {articles[i].id : i \in StatedValid}
    /\ Succeeded =>
          /\ result.totalArticles = Cardinality(StatedValid)
          /\ \A i \in (1..Len(articles)) \ StatedValid :
                articles[i].id \notin OutputIds

----------------------------------------------------------------------------
(* C9 *)

\* C9 as stated: every cluster has at most 5 keywords, the first terms of the
\* extractor's list in rank order, and when the extractor has no term for the
\* cluster's label, keywords is empty and topicName is "Topic <label>".
C9_FallbackOnNoKeywords ==
    Succeeded =>
        \A k \in 1..Len(result.clusters) :
            LET c == result.clusters[k]
                words == get_topic(topic_model, LabelOf(c))
            IN  /\ Len(c.keywords) <= TOP_KEYWORDS
                /\ Len(c.keywords) <= Len(words)
                /\ \A r \in 1..Len(c.keywords) : c.keywords[r] = words[r][1]
                /\ words = <<>> =>
                      /\ c.keywords = <<>>
                      /\ c.topicName = <<"Topic ", LabelOf(c)>>

\* C9 as amended: every cluster has at most 5 keywords, the first terms of the
\* extractor's list in rank order (all of them when there are fewer than 5, none
\* when there is none); topicName is the Name of the label's row of the topic
\* table, and "Topic <label>" exactly when the table has no row for the label,
\* whether or not there are keywords.
C9_KeywordsAndName ==
    Succeeded =>
        \A k \in 1..Len(result.clusters) :
            LET c == result.clusters[k]
                words == get_topic(topic_model, LabelOf(c))
            IN  /\ Len(c.keywords) <= TOP_KEYWORDS
                /\ Len(c.keywords) <= Len(words)
                /\ Len(words) <= TOP_KEYWORDS => Len(c.keywords) = Len(words)
                /\ Len(words) >= TOP_KEYWORDS => Len(c.keywords) = TOP_KEYWORDS
                /\ \A r \in 1..Len(c.keywords) : c.keywords[r] = words[r][1]
                /\ words = <<>> => c.keywords = <<>>
                /\ LabelOf(c) \in DOMAIN topic_model.names =>
                      c.topicName = topic_model.names[LabelOf(c)]
                /\ LabelOf(c) \notin DOMAIN topic_model.names =>
                      c.topicName = <<"Topic ", LabelOf(c)>>

\* a cluster without keywords that is named by the topic table, beside a cluster
\* with keywords
C9_Witness ==
    /\ Succeeded
    /\ \E k \in 1..Len(result.clusters) :
          /\ result.clusters[k].keywords = <<>>
          /\ result.clusters[k].topicName = <<"name", LabelOf(result.clusters[k])>>
    /\ \E k \in 1..Len(result.clusters) : result.clusters[k].keywords # <<>>

----------------------------------------------------------------------------
(* C10 *)

\* the input position of the article that document idx was made from
SourceOf(idx) ==
    CHOOSE i \in ValidIndices :
        Cardinality({j \in ValidIndices : j <= i}) = idx

\* the entry the assembler recorded for position idx of the label sequence
RecordedFor(idx) ==
    LET item == topic_to_articles[KeyIndex(topic_to_articles, topics[idx])]
    IN  item.articles[Cardinality({j \in Carriers(topics[idx]) : j <= idx})]

\* seq lists ids of the input in input order
InInputOrder(seq) ==
    \A a, b \in 1..Len(seq) :
        a < b =>
            \E i, j \in 1..Len(articles) :
                i < j /\ articles[i].id = seq[a] /\ articles[j].id = seq[b]

\* C10: for every position idx of the label sequence, the document text, the
\* article id and the title recorded for idx come from the same input article,
\* also when articles were dropped; articleIds and unclusteredIds are in input
\* order.
C10_IndexAligned ==
    Succeeded =>
        /\ \A idx \in 1..Len(topics) :
              LET src == articles[SourceOf(idx)]
              IN  /\ documents[idx] = DerivedText(src)
                  /\ article_ids[idx] = src.id
                  /\ topics[idx] # OUTLIER =>
                        /\ RecordedFor(idx).id = src.id
                        /\ RecordedFor(idx).title = Get(src, "title", Str(<<>>))
        /\ InInputOrder(result.unclusteredIds)
        /\ \A k \in 1..Len(result.clusters) :
              InInputOrder(result.clusters[k].articleIds)

====
